---- MODULE Spec2Model ----
(***************************************************************************)
(* NGO Impact Dashboard (src/app.py).                                      *)
(*                                                                         *)
(* The module loads six CSV tables into the global mapping `data`, then    *)
(* builds app.layout by calling the five per-organization pipelines in a   *)
(* fixed order, then serves.  Every pipeline is a function of `data` that  *)
(* shapes rows into figure data with pandas primitives (sum, cumsum,       *)
(* nlargest, sort_values/diff/fillna, merge, groupby).  The primitives are *)
(* modelled by what pandas computes; plotly styling is left out, and so    *)
(* are DataFrame.corr and go.Histogram, whose numbers are computed by the  *)
(* library/renderer and on which no checked property rests.                *)
(*                                                                         *)
(* A cell is a record [k, v]: a number, a missing value (NaN) or a text.   *)
(* Texts and identifiers are numbered in their natural (sort) order.       *)
(* A float result is a cell as well; a quotient is a record [k, n, d].     *)
(***************************************************************************)
EXTENDS Integers, Sequences, FiniteSets, TLC

VARIABLES files, data, qsort, pc, tabs, last, calls, probe

vars == <<files, data, qsort, pc, tabs, last, calls, probe>>

-----------------------------------------------------------------------------
(* Bounds of the model *)

\* most rows of a generated table (waterfall, nlargest)
MaxRows == 3
\* largest number in a cell of a generated table
MaxVal == 1
\* number of distinct identifiers / category texts
MaxKey == 2
\* most re-invocations of pipelines after the layout is built
MaxCalls == 2

-----------------------------------------------------------------------------
(* Cells *)

Num(n) == [k |-> "num", v |-> n]

NaN == [k |-> "nan", v |-> 0]

Text(i) == [k |-> "str", v |-> i]

IsNum(c) == c.k = "num"

IsNaN(c) == c.k = "nan"

\* float addition: NaN is absorbing (Python `cum += ch`, line 185)
FAdd(a, b) == IF IsNum(a) /\ IsNum(b) THEN Num(a.v + b.v) ELSE NaN

\* float subtraction (Series.diff, line 173)
FSub(a, b) == IF IsNum(a) /\ IsNum(b) THEN Num(a.v - b.v) ELSE NaN

RECURSIVE Gcd(_, _)
Gcd(a, b) == IF b = 0 THEN a ELSE Gcd(b, a % b)

Abs(x) == IF x < 0 THEN 0 - x ELSE x

\* float division a / b of two integers, as numpy computes it: x/0 is
\* +-inf, 0/0 is NaN, no exception is raised.  A finite quotient is kept
\* as a reduced fraction with a positive denominator.
FDiv(a, b) ==
    IF b = 0
    THEN IF a = 0 THEN [k |-> "nan", n |-> 0, d |-> 0]
         ELSE [k |-> "inf", n |-> (IF a > 0 THEN 1 ELSE 0 - 1), d |-> 0]
    ELSE LET g == Gcd(Abs(a), Abs(b))
             s == IF b < 0 THEN 0 - 1 ELSE 1
         IN  [k |-> "num", n |-> (s * a) \div g, d |-> (s * b) \div g]

\* pd.to_numeric(errors='coerce') on one cell: a text that is no number
\* becomes NaN (lines 116, 277-279, 376)
to_numeric(c) == IF c.k = "str" THEN NaN ELSE c

-----------------------------------------------------------------------------
(* Sequences and columns *)

Range(s) == {s[i] : i \in 1..Len(s)}

\* df[col] : the column as a sequence of cells
Col(rows, col) == [i \in 1..Len(rows) |-> rows[i][col]]

\* rows taken at the given positions (DataFrame.take / iloc)
Take(rows, idx) == [i \in 1..Len(idx) |-> rows[idx[i]]]

RECURSIVE SumSeq(_)
SumSeq(s) == IF s = <<>> THEN 0 ELSE Head(s) + SumSeq(Tail(s))

\* Series.sum() with skipna=True: missing cells contribute nothing, an
\* empty or all-missing column sums to 0
ColSum(cells) ==
    SumSeq([i \in 1..Len(cells) |-> IF IsNum(cells[i]) THEN cells[i].v ELSE 0])

\* number of non-missing cells (Series.count)
ColCount(cells) == Cardinality({i \in 1..Len(cells) : IsNum(cells[i])})

Max(S) == CHOOSE x \in S : \A y \in S : y <= x

\* df[cols] = df[cols].apply(pd.to_numeric, errors='coerce') on a frame
CoerceCols(rows, cols) ==
    [i \in 1..Len(rows) |->
        [c \in DOMAIN rows[i] |->
            IF c \in cols THEN to_numeric(rows[i][c]) ELSE rows[i][c]]]

\* cell order used by sort_values: numbers/texts by value, NaN last
CellLeq(a, b, descending) ==
    \/ IsNaN(b)
    \/ /\ ~IsNaN(a)
       /\ IF descending THEN a.v >= b.v ELSE a.v <= b.v

\* The results sort_values (kind='quicksort') may return for these keys:
\* every permutation of the positions that is sorted.  The default sort
\* kind is not stable, so the order among equal keys is the build's
\* (numpy's) choice.  Missing keys are not sorted: they are placed last,
\* in row order.
SortOutcomes(keys, descending) ==
    LET n == Len(keys)
    IN  {p \in [1..n -> 1..n] :
            /\ \A i \in 1..(n - 1) :
                  /\ p[i] # p[i + 1]
                  /\ CellLeq(keys[p[i]], keys[p[i + 1]], descending)
                  /\ (IsNaN(keys[p[i]]) /\ IsNaN(keys[p[i + 1]])) => p[i] < p[i + 1]
            /\ \A i, j \in 1..n : i # j => p[i] # p[j]}

\* the stable ordering: equal keys stay in original order.  Position j
\* comes before position k when its key sorts strictly first, or the keys
\* are equal and j < k
StableSort(keys, descending) ==
    LET n == Len(keys)
        Before(j, k) ==
            \/ ~CellLeq(keys[k], keys[j], descending)
            \/ (CellLeq(keys[j], keys[k], descending) /\ j < k)
    IN  [i \in 1..n |->
            CHOOSE j \in 1..n :
                Cardinality({k \in 1..n : Before(k, j)}) = i - 1]

-----------------------------------------------------------------------------
(* pandas primitives used by the pipelines *)

\* the selection if it were sort_values(ascending=False).head(n) for
\* every n: the unstable default sort decides the order of equal values
nlargest_by_sort(n, rows, col, q) ==
    IF n <= 0 THEN <<>>
    ELSE IF n >= Len(rows) THEN q
    ELSE SubSeq(q, 1, n)

\* Positions selected by DataFrame.nlargest(n, col) (keep='first'), in
\* output order.  n <= 0 selects nothing.  With n >= len(frame) pandas
\* takes its "slow" path, sort_values(ascending=False).head(n), whose
\* order among equal values is the unstable default sort's: q is that
\* sort's outcome.  Otherwise the non-missing values are ordered with a
\* stable mergesort, missing values are appended in row order, and the
\* first n are kept.
nlargest(n, rows, col, q) ==
    IF n <= 0 THEN <<>>
    ELSE IF n >= Len(rows) THEN q
    ELSE SubSeq(StableSort(Col(rows, col), TRUE), 1, n)

\* Series.cumsum(): running sum that skips missing cells and leaves them
\* missing in the output (line 132)
cumsum(cells) ==
    [i \in 1..Len(cells) |->
        IF IsNaN(cells[i]) THEN NaN ELSE Num(ColSum(SubSeq(cells, 1, i)))]

\* the deltas if the missing first delta were filled with 0 instead of
\* the row's raw value
sort_diff_fillna_zero(rows, col, sorted) ==
    LET vals == [i \in 1..Len(rows) |-> rows[sorted[i]][col]]
    IN  [i \in 1..Len(rows) |->
            IF i = 1 THEN (IF IsNaN(vals[1]) THEN NaN ELSE Num(0))
            ELSE FSub(vals[i], vals[i - 1])]

\* df.sort_values(order)[[col]].diff().fillna(df[[col]]) (line 173).
\* `sorted` is the outcome of the sort: the row labels in sorted order.
\* diff() leaves the first sorted row missing; fillna aligns on the row
\* label, so a missing delta is replaced by the raw value of that row.
sort_diff_fillna(rows, col, sorted) ==
    LET vals == [i \in 1..Len(rows) |-> rows[sorted[i]][col]]
        diff == [i \in 1..Len(rows) |->
                    IF i = 1 THEN NaN ELSE FSub(vals[i], vals[i - 1])]
    IN  [i \in 1..Len(rows) |->
            IF IsNaN(diff[i]) THEN rows[sorted[i]][col] ELSE diff[i]]

\* the accumulator `cum` after the first i iterations of the loop of
\* lines 175-185
RECURSIVE CumAfter(_, _)
CumAfter(changes, i) ==
    IF i = 0 THEN Num(0) ELSE FAdd(CumAfter(changes, i - 1), changes[i])

\* x of the i-th bar: df['EventID'].iloc[i], the i-th row of the frame
\* as loaded, not of the sorted frame (line 178)
WaterfallKey(rows, sorted, i) == rows[i]["EventID"]

\* the bars of fig5 (lines 176-185): one trace per entry of `changes`
WaterfallBars(rows, sorted) ==
    LET changes == sort_diff_fillna(rows, "AreaRestoredSqM", sorted)
    IN  [i \in 1..Len(changes) |->
            [x    |-> WaterfallKey(rows, sorted, i),
             y    |-> changes[i],
             base |-> CumAfter(changes, i - 1)]]

\* col.replace('_', ' ').title() on the compared column names
Title(col) ==
    CASE col = "AreaRestoredSqM" -> "Arearestoredsqm"
      [] col = "NativeFloraPlanted" -> "Nativefloraplanted"
      [] col = "WasteRemovedKg" -> "Wasteremovedkg"
      [] col = "BiodiversitySpeciesCount" -> "Biodiversityspeciescount"
      [] col = "WaterQualityImprovementScore" -> "Waterqualityimprovementscore"
      [] OTHER -> col

\* norm = df[cols].sum() / df[cols].sum().max() (line 158)
RadarNorm(rows, cols) ==
    LET sums == [i \in 1..Len(cols) |-> ColSum(Col(rows, cols[i]))]
        m    == Max(Range(sums))
    IN  [i \in 1..Len(cols) |-> FDiv(sums[i], m)]

\* r and theta of fig4 (lines 159-163): the first entry again at the end
Radar(rows, cols) ==
    LET norm == RadarNorm(rows, cols)
    IN  [r     |-> norm \o <<norm[1]>>,
         theta |-> [i \in 1..Len(cols) |-> Title(cols[i])] \o <<Title(cols[1])>>]

\* rows of `right` whose key equals k, in right's row order
Matches(right, key, k) == SelectSeq(right, LAMBDA r : r[key] = k)

RECURSIVE Flatten(_)
Flatten(ss) == IF ss = <<>> THEN <<>> ELSE Head(ss) \o Flatten(Tail(ss))

\* the merge if it were how='inner': left rows without a match are lost
merge_inner(left, right) ==
    Flatten([i \in 1..Len(left) |->
        LET ms == Matches(right, "EventID", left[i]["EventID"])
        IN  [j \in 1..Len(ms) |->
                [row |-> left[i],
                 CorporateSponsor |-> ms[j]["CorporateSponsor"],
                 DateOfImplementation |-> ms[j]["DateOfImplementation"]]]])

\* pd.merge(left, right[[EventID, CorporateSponsor, DateOfImplementation]],
\*          on='EventID', how='left') (line 197): left order is kept; a
\* left row is emitted once per right row with its key, in right's order,
\* and once with missing right columns when no right row has its key.
merge_left(left, right) ==
    Flatten([i \in 1..Len(left) |->
        LET ms == Matches(right, "EventID", left[i]["EventID"])
        IN  IF ms = <<>>
            THEN << [row |-> left[i], CorporateSponsor |-> NaN,
                     DateOfImplementation |-> NaN] >>
            ELSE [j \in 1..Len(ms) |->
                    [row |-> left[i],
                     CorporateSponsor |-> ms[j]["CorporateSponsor"],
                     DateOfImplementation |-> ms[j]["DateOfImplementation"]]]])

\* the group keys if groupby were called with dropna=False: a missing key
\* forms a group of its own, placed last
GroupKeysKeepNa(keys) ==
    LET present == {keys[i] : i \in {j \in 1..Len(keys) : ~IsNaN(keys[j])}}
        sorted  == [i \in 1..Cardinality(present) |->
                       CHOOSE c \in present :
                           Cardinality({b \in present : b.v < c.v}) = i - 1]
    IN  IF \E i \in 1..Len(keys) : IsNaN(keys[i]) THEN Append(sorted, NaN) ELSE sorted

\* the group keys of df.groupby(col): sort=True, dropna=True, so the
\* distinct non-missing values in ascending order
GroupKeys(keys) ==
    LET present == {keys[i] : i \in {j \in 1..Len(keys) : ~IsNaN(keys[j])}}
    IN  [i \in 1..Cardinality(present) |->
            CHOOSE c \in present :
                Cardinality({b \in present : b.v < c.v}) = i - 1]

\* the cells aggregated for a group if the partition were ignored
GroupCellsAll(keys, cells, g) == cells

\* the value cells of the rows whose group key is g, in row order
GroupCells(keys, cells, g) ==
    LET idx == SelectSeq([i \in 1..Len(keys) |-> i], LAMBDA i : keys[i] = g)
    IN  [j \in 1..Len(idx) |-> cells[idx[j]]]

\* groupby(...)[col].sum(): index and values
groupby_sum(keys, cells) ==
    LET gs == GroupKeys(keys)
    IN  [index  |-> gs,
         values |-> [i \in 1..Len(gs) |-> ColSum(GroupCells(keys, cells, gs[i]))]]

\* groupby(...)[col].mean(): mean of the non-missing cells of each group,
\* NaN for a group with none
groupby_mean(keys, cells) ==
    LET gs == GroupKeys(keys)
    IN  [index  |-> gs,
         values |-> [i \in 1..Len(gs) |->
                        LET g == GroupCells(keys, cells, gs[i])
                        IN  FDiv(ColSum(g), ColCount(g))]]

-----------------------------------------------------------------------------
(* Tables and the pipelines *)

Sources == {"aurevia", "csr_main", "noventra", "trionyx", "veltrix", "zentara"}

\* value assigned to MockDrillsConducted (line 50)
MockDrills == 100

\* n of df.nlargest (line 143)
TopN == 10

\* an exception leaving a pipeline
Raise(e) == [ok |-> FALSE, error |-> e]

NotRun == Raise("not run")

\* columns of the Veltrix table in header order (the code refers to
\* EventID and MockDrillsConducted by name and to the rest by dtype)
VeltrixCols == <<"EventID", "VolunteersTrained", "MockDrillsConducted">>

\* Series.astype(str) on an identifier cell (lines 145, 396)
astype_str(c) == IF IsNaN(c) THEN [k |-> "str", v |-> 0] ELSE [k |-> "str", v |-> c.v]

\* lines 49-50: the frame the Assam pipeline works on
assam_frame(d) ==
    [i \in 1..Len(d.veltrix.rows) |->
        [d.veltrix.rows[i] EXCEPT !["MockDrillsConducted"] = Num(MockDrills)]]

\* df.select_dtypes(include='number').columns.tolist() (line 51): the
\* columns read_csv typed as numbers, i.e. those holding no text cell; a
\* frame without rows has only the assigned column numeric
num_cols(df) ==
    SelectSeq(VeltrixCols,
              LAMBDA c : \/ c = "MockDrillsConducted"
                         \/ /\ df # <<>>
                            /\ \A i \in 1..Len(df) : df[i][c].k # "str")

\* the shared mapping if line 49 took no copy: line 50 would assign into
\* the table held by `data`
assam_data_nocopy(d) == [d EXCEPT !.veltrix.rows = assam_frame(d)]

\* the shared mapping `data` after a call of assam_ngo_graphs: line 50
\* assigns into the copy made at line 49, so no table of `data` changes
assam_data(d) == d

\* lines 48-109
assam_ngo_graphs(d) ==
    IF ~d.veltrix.complete THEN Raise("KeyError")
    ELSE LET df == assam_frame(d)
             nc == num_cols(df)
         IN  IF Len(nc) < 2 THEN Raise("IndexError")
             ELSE [ok   |-> TRUE,
                   fig1 |-> [x |-> nc,
                             y |-> [i \in 1..Len(nc) |-> ColSum(Col(df, nc[i]))]],
                   fig2 |-> [i \in 1..Len(nc) |-> Col(df, nc[i])],
                   fig4 |-> [x |-> Col(df, nc[1]), y |-> Col(df, nc[2]),
                             hovertext |-> Col(df, "EventID")]]

\* the compared columns (lines 114-115)
NoventraCols ==
    <<"AreaRestoredSqM", "NativeFloraPlanted", "WasteRemovedKg",
      "BiodiversitySpeciesCount", "WaterQualityImprovementScore">>

\* lines 113-116: the frame the West Bengal pipeline works on
west_bengal_frame(d) == CoerceCols(d.noventra.rows, Range(NoventraCols))

\* line 116 assigns into the copy made at line 113
west_bengal_data(d) == d

\* lines 112-193.  qs holds the outcomes of the two default-kind sorts the
\* pipeline can run on this frame: byEvent for sort_values('EventID'),
\* byWaste for the sort inside nlargest.
west_bengal_ngo_graphs(d, qs) ==
    IF ~d.noventra.complete THEN Raise("KeyError")
    ELSE LET df    == west_bengal_frame(d)
             top10 == Take(df, nlargest(TopN, df, "WasteRemovedKg", qs.byWaste))
             bars  == WaterfallBars(df, qs.byEvent)
         IN  [ok   |-> TRUE,
              fig2 |-> cumsum(Col(df, "NativeFloraPlanted")),
              fig3 |-> [x |-> [i \in 1..Len(top10) |-> astype_str(top10[i]["EventID"])],
                        y |-> Col(top10, "WasteRemovedKg")],
              fig4 |-> Radar(df, NoventraCols),
              fig5 |-> bars,
              cum  |-> CumAfter([i \in 1..Len(bars) |-> bars[i].y], Len(bars))]

\* line 197 builds a new frame; nothing is assigned afterwards
rajasthan_data(d) == d

\* lines 196-272
rajasthan_ngo_graphs(d) ==
    IF ~d.aurevia.complete \/ ~d.csr_main.complete THEN Raise("KeyError")
    ELSE LET df    == merge_left(d.aurevia.rows, d.csr_main.rows)
             trees == [i \in 1..Len(df) |-> df[i].row["TreesPlanted"]]
             g     == groupby_sum(Col(df, "CorporateSponsor"), trees)
         IN  [ok   |-> TRUE,
              fig1 |-> [x |-> g.index, y |-> g.values],
              fig2 |-> [x |-> Col(df, "DateOfImplementation"), y |-> trees,
                        hovertext |-> Col(df, "CorporateSponsor")],
              fig3 |-> [x |-> trees,
                        hovertext |-> [i \in 1..Len(df) |-> df[i].row["EventID"]]]]

\* lines 276-279: the frame the Tamil Nadu pipeline works on
tamil_nadu_frame(d) ==
    CoerceCols(d.zentara.rows, {"PitsInstalled", "EstimatedStorageLitersPerMonth"})

\* lines 277-279 assign into the copy made at line 276
tamil_nadu_data(d) == d

\* lines 275-369
tamil_nadu_ngo_graphs(d) ==
    IF ~d.zentara.complete THEN Raise("KeyError")
    ELSE LET df   == tamil_nadu_frame(d)
             keys == Col(df, "StructureType")
             pits == groupby_mean(keys, Col(df, "PitsInstalled"))
             stor == groupby_mean(keys, Col(df, "EstimatedStorageLitersPerMonth"))
         IN  [ok   |-> TRUE,
              fig1 |-> [x |-> pits.index, pits |-> pits.values,
                        storage |-> stor.values],
              fig3 |-> [x |-> Col(df, "PitsInstalled"),
                        y |-> Col(df, "EstimatedStorageLitersPerMonth"),
                        hovertext |-> keys]]

\* the coerced columns (lines 374-375)
TrionyxCols ==
    <<"TankersSupplied", "WaterDeliveredLiters", "HouseholdsReached",
      "WaterDistributionPoints", "HygieneKitsDistributed">>

\* lines 373-376: the frame the Maharashtra pipeline works on
maharashtra_frame(d) == CoerceCols(d.trionyx.rows, Range(TrionyxCols))

\* line 376 assigns into the copy made at line 373
maharashtra_data(d) == d

\* lines 372-409
maharashtra_ngo_graphs(d) ==
    IF ~d.trionyx.complete THEN Raise("KeyError")
    ELSE LET df == maharashtra_frame(d)
         IN  [ok   |-> TRUE,
              fig1 |-> [i \in 1..Len(TrionyxCols) |-> Col(df, TrionyxCols[i])],
              fig2 |-> [x |-> [i \in 1..Len(df) |-> astype_str(df[i]["EventID"])],
                        y |-> Col(df, "HygieneKitsDistributed")]]

-----------------------------------------------------------------------------
(* The process: load, build the layout, serve *)

Pipelines == {"assam", "west_bengal", "rajasthan", "tamil_nadu", "maharashtra"}

\* the result of calling pipeline p
Run(p, d, qs) ==
    CASE p = "assam" -> assam_ngo_graphs(d)
      [] p = "west_bengal" -> west_bengal_ngo_graphs(d, qs)
      [] p = "rajasthan" -> rajasthan_ngo_graphs(d)
      [] p = "tamil_nadu" -> tamil_nadu_ngo_graphs(d)
      [] p = "maharashtra" -> maharashtra_ngo_graphs(d)

\* the shared mapping after calling pipeline p
DataAfter(p, d) ==
    CASE p = "assam" -> assam_data(d)
      [] p = "west_bengal" -> west_bengal_data(d)
      [] p = "rajasthan" -> rajasthan_data(d)
      [] p = "tamil_nadu" -> tamil_nadu_data(d)
      [] p = "maharashtra" -> maharashtra_data(d)

\* `data` before line 45 has run
Unloaded == [t \in Sources |-> [complete |-> FALSE, rows |-> <<>>]]

\* what load_data returns when every file can be read (lines 36-43)
Loaded(F) == [t \in Sources |-> [complete |-> F[t].complete, rows |-> F[t].rows]]

\* data = load_data() at import (lines 34-45): pd.read_csv raises when a
\* file is absent or is no table, nothing catches it, and the import of
\* the module ends there
LoadData ==
    /\ pc = "load"
    /\ IF \A t \in Sources : files[t].readable
       THEN data' = Loaded(files) /\ pc' = "assam"
       ELSE data' = data /\ pc' = "crashed"
    /\ UNCHANGED <<files, qsort, tabs, last, calls, probe>>

\* children=<pipeline>() inside the app.layout expression (lines 412-509):
\* the pipelines are called in tab order while the module is imported; an
\* exception in one leaves the expression, and the import of the module
LayoutStep(p, next) ==
    /\ pc = p
    /\ LET r == Run(p, data, qsort)
       IN  IF r.ok
           THEN tabs' = [tabs EXCEPT ![p] = r] /\ pc' = next
           ELSE tabs' = tabs /\ pc' = "crashed"
    /\ data' = DataAfter(p, data)
    /\ UNCHANGED <<files, qsort, last, calls, probe>>

\* line 423
LayoutAssam == LayoutStep("assam", "west_bengal")

\* line 439
LayoutWestBengal == LayoutStep("west_bengal", "rajasthan")

\* line 455
LayoutRajasthan == LayoutStep("rajasthan", "tamil_nadu")

\* line 471
LayoutTamilNadu == LayoutStep("tamil_nadu", "maharashtra")

\* line 487
LayoutMaharashtra == LayoutStep("maharashtra", "ready")

\* app.run(...) / the WSGI server picks up `server` (line 511)
Serve ==
    /\ pc = "ready"
    /\ pc' = "serving"
    /\ UNCHANGED <<files, data, qsort, tabs, last, calls, probe>>

\* a further call of a pipeline function once the module is imported
Call(p) ==
    /\ pc = "serving"
    /\ calls < MaxCalls
    /\ last' = [last EXCEPT ![p] = Run(p, data, qsort)]
    /\ data' = DataAfter(p, data)
    /\ calls' = calls + 1
    /\ UNCHANGED <<files, qsort, pc, tabs, probe>>

CallAssam == Call("assam")

CallWestBengal == Call("west_bengal")

CallRajasthan == Call("rajasthan")

CallTamilNadu == Call("tamil_nadu")

CallMaharashtra == Call("maharashtra")

\* df.nlargest(n, 'WasteRemovedKg') applied to the probe frame; the sort
\* of the slow path returns one of its possible outcomes
ApplyTopN ==
    /\ ~probe.done
    /\ \E q \in SortOutcomes(Col(probe.rows, "WasteRemovedKg"), TRUE) :
          probe' = [probe EXCEPT
                       !.done = TRUE,
                       !.out = nlargest(probe.n, probe.rows, "WasteRemovedKg", q)]
    /\ UNCHANGED <<files, data, qsort, pc, tabs, last, calls>>

-----------------------------------------------------------------------------
(* Inputs: the CSV files found at load time *)

\* most rows of the two tables that are joined
JoinRows == 2
\* most rows of the table given to the radar normalisation
RadarRows == 2
\* largest number in a cell of the radar table
RadarVal == 1

SeqsUpTo(S, n) == UNION {[1..k -> S] : k \in 0..n}

\* identifiers and category texts, in sort order
Keys == {Text(i) : i \in 1..MaxKey}

\* numeric cells as read_csv yields them: a number or a missing value
Vals == {Num(i) : i \in 0..MaxVal} \cup {NaN}

NoProbe == [rows |-> <<>>, n |-> 0, done |-> TRUE, out |-> <<>>]

VeltrixRow(e, v, m) ==
    [EventID |-> e, VolunteersTrained |-> v, MockDrillsConducted |-> m]

NoventraRow(e, a, f, w, b, q) ==
    [EventID |-> e, AreaRestoredSqM |-> a, NativeFloraPlanted |-> f,
     WasteRemovedKg |-> w, BiodiversitySpeciesCount |-> b,
     WaterQualityImprovementScore |-> q]

AureviaRow(e, t) == [EventID |-> e, TreesPlanted |-> t]

CsrRow(e, s) ==
    [EventID |-> e, CorporateSponsor |-> s, DateOfImplementation |-> Text(1)]

ZentaraRow(s, p, l) ==
    [StructureType |-> s, PitsInstalled |-> p, EstimatedStorageLitersPerMonth |-> l]

TrionyxRow(e, h) ==
    [EventID |-> e, TankersSupplied |-> Num(1), WaterDeliveredLiters |-> Num(1),
     HouseholdsReached |-> Num(1), WaterDistributionPoints |-> Num(1),
     HygieneKitsDistributed |-> h]

\* a one-row table for each source
DefaultRows(t) ==
    CASE t = "veltrix" -> <<VeltrixRow(Text(1), Num(1), Num(0))>>
      [] t = "noventra" ->
            <<NoventraRow(Text(1), Num(1), Num(1), Num(1), Num(1), Num(1))>>
      [] t = "aurevia" -> <<AureviaRow(Text(1), Num(1))>>
      [] t = "csr_main" -> <<CsrRow(Text(1), Text(1))>>
      [] t = "zentara" -> <<ZentaraRow(Text(1), Num(1), Num(1))>>
      [] t = "trionyx" -> <<TrionyxRow(Text(1), Text(1))>>

File(rows) == [readable |-> TRUE, complete |-> TRUE, rows |-> rows]

\* a file that is absent or is no table
Unreadable == [readable |-> FALSE, complete |-> FALSE, rows |-> <<>>]

\* a table whose header lacks a column its pipeline refers to
Incomplete(rows) == [readable |-> TRUE, complete |-> FALSE, rows |-> rows]

DefaultFiles == [t \in Sources |-> File(DefaultRows(t))]

\* the outcomes of the two default-kind sorts on the Noventra frame
QsortOutcomes(F) ==
    LET df == CoerceCols(F["noventra"].rows, Range(NoventraCols))
    IN  {[byEvent |-> p, byWaste |-> q] :
            p \in SortOutcomes(Col(df, "EventID"), FALSE),
            q \in SortOutcomes(Col(df, "WasteRemovedKg"), TRUE)}

\* as QsortOutcomes, the sort inside nlargest taking its stable outcome
QsortByEvent(F) ==
    LET df == CoerceCols(F["noventra"].rows, Range(NoventraCols))
    IN  {[byEvent |-> p, byWaste |-> StableSort(Col(df, "WasteRemovedKg"), TRUE)] :
            p \in SortOutcomes(Col(df, "EventID"), FALSE)}

\* tab order of the layout
Order == <<"assam", "west_bengal", "rajasthan", "tamil_nadu", "maharashtra">>

Position(p) == CHOOSE i \in 1..Len(Order) : Order[i] = p

\* the state at import time before anything is loaded
InitLoad(F) ==
    /\ files = F
    /\ data = Unloaded
    /\ pc = "load"
    /\ tabs = [p \in Pipelines |-> NotRun]
    /\ last = [p \in Pipelines |-> NotRun]
    /\ calls = 0

\* the state in which the layout is about to call pipeline p: the files
\* are loaded and the tabs before p are built
InitAt(p, F) ==
    /\ files = F
    /\ data = Loaded(F)
    /\ pc = p
    /\ tabs = [o \in Pipelines |->
                 IF Position(o) < Position(p) THEN Run(o, Loaded(F), qsort) ELSE NotRun]
    /\ last = [o \in Pipelines |-> NotRun]
    /\ calls = 0

-----------------------------------------------------------------------------
(* The whole process, with any one file absent or incomplete *)

ProcessVeltrix ==
    SeqsUpTo({VeltrixRow(Text(1), v, m) : v \in {Num(1), Text(1)}, m \in {Num(0), NaN}}, 1)

ProcessNoventra ==
    { DefaultRows("noventra"),
      << NoventraRow(Text(2), Num(1), Text(1), Num(1), Num(0), NaN),
         NoventraRow(Text(1), Num(2), Num(1), Num(1), Num(1), Num(1)),
         NoventraRow(Text(1), Num(0), Num(2), Num(0), Num(1), Num(1)) >> }

ProcessFiles ==
    {[DefaultFiles EXCEPT !["veltrix"] = File(v), !["noventra"] = File(n)] :
        v \in ProcessVeltrix, n \in ProcessNoventra}
    \cup {[DefaultFiles EXCEPT ![t] = Unreadable] : t \in Sources}
    \cup {[DefaultFiles EXCEPT ![t] = Incomplete(DefaultRows(t))] : t \in Sources}

Init ==
    /\ \E F \in ProcessFiles : InitLoad(F)
    /\ qsort \in QsortOutcomes(files)
    /\ probe = NoProbe

Next ==
    \/ LoadData
    \/ LayoutAssam
    \/ LayoutWestBengal
    \/ LayoutRajasthan
    \/ LayoutTamilNadu
    \/ LayoutMaharashtra
    \/ Serve
    \/ CallAssam
    \/ CallWestBengal
    \/ CallRajasthan
    \/ CallTamilNadu
    \/ CallMaharashtra

Spec == Init /\ [][Next]_vars

-----------------------------------------------------------------------------
(* Error isolation and frame properties of the process *)

\* the sources a pipeline reads
Reads(p) ==
    CASE p = "assam" -> {"veltrix"}
      [] p = "west_bengal" -> {"noventra"}
      [] p = "rajasthan" -> {"aurevia", "csr_main"}
      [] p = "tamil_nadu" -> {"zentara"}
      [] p = "maharashtra" -> {"trionyx"}

\* pipeline p meets a structural error: a source it reads cannot be
\* loaded, or lacks a column the pipeline refers to
Structural(p) ==
    \E t \in Reads(p) : ~files[t].readable \/ ~files[t].complete

\* C4: a structural error in one pipeline aborts only that pipeline: once
\* the start-up has come to rest, every pipeline without a structural
\* error has produced its bundles and the process has not died.
C4_OnlyFailingPipelineAborts ==
    pc \in {"crashed", "serving"} =>
        \A p \in Pipelines :
            Structural(p) =>
                /\ pc # "crashed"
                /\ \A o \in Pipelines \ {p} : ~Structural(o) => tabs[o].ok

-----------------------------------------------------------------------------
(* The West Bengal waterfall on any Noventra table *)

WaterfallRows ==
    {NoventraRow(e, a, Num(1), Num(1), Num(1), Num(1)) : e \in Keys, a \in Vals}

InitWaterfall ==
    /\ \E rows \in SeqsUpTo(WaterfallRows, MaxRows) :
          files = [DefaultFiles EXCEPT !["noventra"] = File(rows)]
    /\ qsort \in QsortByEvent(files)
    /\ InitAt("west_bengal", files)
    /\ probe = NoProbe

NextWaterfall == LayoutWestBengal

SpecWaterfall == InitWaterfall /\ [][NextWaterfall]_vars

\* the frame of the West Bengal pipeline and its rows in sorted order
WbFrame == west_bengal_frame(data)

WbSorted == Take(WbFrame, qsort.byEvent)

WbArea == Col(WbFrame, "AreaRestoredSqM")

\* C1 as stated: the running total after the last row equals the raw sum
\* of AreaRestoredSqM over all rows.
C1_CumEqualsRawSum ==
    tabs["west_bengal"].ok =>
        tabs["west_bengal"].cum = Num(ColSum(WbArea))

\* C1 amended: the running total after the last row is the value of the
\* last row in sorted order (the deltas telescope to it), 0 for a table
\* without rows, and NaN as soon as one value is missing; it is the base
\* of the last bar plus its delta.
C1_CumEqualsLastSortedValue ==
    tabs["west_bengal"].ok =>
        LET bars == tabs["west_bengal"].fig5
            cum  == tabs["west_bengal"].cum
            n    == Len(WbFrame)
        IN  /\ Len(bars) = n
            /\ n = 0 => cum = Num(0)
            /\ (n > 0 /\ \A i \in 1..n : IsNum(WbArea[i])) =>
                   cum = WbSorted[n]["AreaRestoredSqM"]
            /\ (\E i \in 1..n : IsNaN(WbArea[i])) => cum = NaN
            /\ n > 0 => /\ cum = FAdd(bars[n].base, bars[n].y)
                        /\ bars[1].base = Num(0)
                        /\ bars[1].y = WbSorted[1]["AreaRestoredSqM"]

\* C1 witness: the waterfall was built from three rows, none missing,
\* not in EventID order, whose sum differs from the last sorted value
C1_Witness ==
    /\ tabs["west_bengal"].ok
    /\ Len(WbFrame) = 3
    /\ \A i \in 1..3 : IsNum(WbArea[i])
    /\ WbFrame[1]["EventID"].v > WbFrame[2]["EventID"].v
    /\ ColSum(WbArea) # WbSorted[3]["AreaRestoredSqM"].v
    /\ tabs["west_bengal"].cum = WbSorted[3]["AreaRestoredSqM"]

\* C7: the waterfall has one entry per row, in ascending EventID order,
\* and the key of the i-th entry is the EventID of the row that produced
\* the i-th delta (the i-th row in sorted order).
C7_KeysFollowSortedRows ==
    tabs["west_bengal"].ok =>
        LET bars == tabs["west_bengal"].fig5
        IN  /\ Len(bars) = Len(WbFrame)
            /\ \A i \in 1..Len(bars) : bars[i].x = WbSorted[i]["EventID"]
            /\ \A i \in 1..(Len(bars) - 1) : bars[i].x.v <= bars[i + 1].x.v

-----------------------------------------------------------------------------
(* The West Bengal radar on any non-negative Noventra table *)

RadarCells == {Num(i) : i \in 0..RadarVal}

RadarTableRows ==
    {NoventraRow(Text(1), a, f, w, b, q) :
        a \in RadarCells, f \in RadarCells, w \in RadarCells,
        b \in RadarCells, q \in RadarCells}

\* both sorts taking their stable outcome
QsortStable(F) ==
    LET df == CoerceCols(F["noventra"].rows, Range(NoventraCols))
    IN  [byEvent |-> StableSort(Col(df, "EventID"), FALSE),
         byWaste |-> StableSort(Col(df, "WasteRemovedKg"), TRUE)]

InitRadar ==
    /\ \E rows \in SeqsUpTo(RadarTableRows, RadarRows) :
          files = [DefaultFiles EXCEPT !["noventra"] = File(rows)]
    /\ qsort = QsortStable(files)
    /\ InitAt("west_bengal", files)
    /\ probe = NoProbe

NextRadar == LayoutWestBengal

SpecRadar == InitRadar /\ [][NextRadar]_vars

\* the column sums the radar compares
WbSums == [i \in 1..Len(NoventraCols) |-> ColSum(Col(WbFrame, NoventraCols[i]))]

Zero == FDiv(0, 1)

\* C2: the normalisation is guarded against a zero maximum: when all
\* column sums are zero every returned value is 0, and a column summing to
\* zero beside a nonzero maximum yields 0.
C2_ZeroMaximumGuarded ==
    tabs["west_bengal"].ok =>
        LET r == tabs["west_bengal"].fig4.r
        IN  /\ (\A i \in 1..Len(WbSums) : WbSums[i] = 0) =>
                   \A j \in 1..Len(r) : r[j] = Zero
            /\ \A i \in 1..Len(WbSums) :
                   (WbSums[i] = 0 /\ Max(Range(WbSums)) > 0) => r[i] = Zero

\* C8: for non-negative columns the radar has len(columns)+1 entries, every
\* value lies in [0,1], and the last entry (label and value) is the first.
C8_RadarInUnitIntervalAndClosed ==
    tabs["west_bengal"].ok =>
        LET r     == tabs["west_bengal"].fig4.r
            theta == tabs["west_bengal"].fig4.theta
            n     == Len(NoventraCols)
        IN  /\ Len(r) = n + 1
            /\ Len(theta) = n + 1
            /\ \A j \in 1..Len(r) : r[j].k = "num" /\ 0 <= r[j].n /\ r[j].n <= r[j].d
            /\ r[n + 1] = r[1]
            /\ theta[n + 1] = theta[1]

-----------------------------------------------------------------------------
(* The Rajasthan join and the grouped aggregates on any tables *)

\* largest number in a cell of the joined and grouped tables
AggVal == 1

\* most rows of the table that is grouped by StructureType
GroupRows == 3

\* the identifiers the two joined tables draw their EventID from
JoinIds == {Text(1), Text(2)}

\* category cells: two texts, or missing
Categories == {Text(1), Text(2), NaN}

AggCells == {Num(i) : i \in 0..AggVal} \cup {NaN}

InitJoin ==
    /\ \E left \in SeqsUpTo({AureviaRow(e, Num(t)) : e \in JoinIds, t \in 0..AggVal}, JoinRows),
          right \in SeqsUpTo({CsrRow(e, c) : e \in JoinIds, c \in Categories}, JoinRows) :
          files = [DefaultFiles EXCEPT !["aurevia"] = File(left),
                                       !["csr_main"] = File(right)]
    /\ qsort = QsortStable(files)
    /\ InitAt("rajasthan", files)
    /\ probe = NoProbe

InitGroup ==
    /\ \E rows \in SeqsUpTo({ZentaraRow(c, p, Num(1)) :
                                c \in Categories, p \in AggCells}, GroupRows) :
          files = [DefaultFiles EXCEPT !["zentara"] = File(rows)]
    /\ qsort = QsortStable(files)
    /\ InitAt("tamil_nadu", files)
    /\ probe = NoProbe

InitAgg == InitJoin \/ InitGroup

NextAgg == LayoutRajasthan \/ LayoutTamilNadu

SpecAgg == InitAgg /\ [][NextAgg]_vars


\* the two joined tables, and the joined frame as the figures show it
RjLeft == data.aurevia.rows

RjRight == data.csr_main.rows

RjIds == tabs["rajasthan"].fig3.hovertext

RjTrees == tabs["rajasthan"].fig2.y

RjSponsors == tabs["rajasthan"].fig2.hovertext

RjDates == tabs["rajasthan"].fig2.x

\* number of rows of the reference table with key k
KeyCount(k) == Cardinality({m \in 1..Len(RjRight) : RjRight[m]["EventID"] = k})

\* the row of the reference table holding the r-th occurrence of key k
Occurrence(k, r) ==
    CHOOSE m \in 1..Len(RjRight) :
        /\ RjRight[m]["EventID"] = k
        /\ Cardinality({j \in 1..m : RjRight[j]["EventID"] = k}) = r

\* number of output rows owed to primary row i
Mult(i) ==
    IF KeyCount(RjLeft[i]["EventID"]) = 0 THEN 1 ELSE KeyCount(RjLeft[i]["EventID"])

RECURSIVE Offset(_)
Offset(i) == IF i <= 1 THEN 0 ELSE Offset(i - 1) + Mult(i - 1)

\* C3 as stated: the join yields exactly one row per primary row, in
\* primary order, with the joined columns of the first occurrence of the
\* key in the reference table, or missing when the key does not occur.
C3_OneRowPerPrimaryRow ==
    tabs["rajasthan"].ok =>
        /\ Len(RjIds) = Len(RjLeft)
        /\ \A i \in 1..Len(RjLeft) :
              LET k == RjLeft[i]["EventID"]
              IN  /\ RjIds[i] = k
                  /\ RjTrees[i] = RjLeft[i]["TreesPlanted"]
                  /\ RjSponsors[i] =
                        IF KeyCount(k) = 0 THEN NaN
                        ELSE RjRight[Occurrence(k, 1)]["CorporateSponsor"]

\* C3 amended: the join yields, for each primary row in primary order, one
\* row per occurrence of its key in the reference table, in the reference
\* table's row order, and one row with missing joined columns when the key
\* does not occur; with unique reference keys that is one row per primary
\* row.
C3_OneRowPerMatch ==
    tabs["rajasthan"].ok =>
        /\ Len(RjIds) = Offset(Len(RjLeft) + 1)
        /\ \A i \in 1..Len(RjLeft) :
              LET k == RjLeft[i]["EventID"]
              IN  \A r \in 1..Mult(i) :
                      /\ RjIds[Offset(i) + r] = k
                      /\ RjTrees[Offset(i) + r] = RjLeft[i]["TreesPlanted"]
                      /\ RjSponsors[Offset(i) + r] =
                            IF KeyCount(k) = 0 THEN NaN
                            ELSE RjRight[Occurrence(k, r)]["CorporateSponsor"]
                      /\ RjDates[Offset(i) + r] =
                            IF KeyCount(k) = 0 THEN NaN
                            ELSE RjRight[Occurrence(k, r)]["DateOfImplementation"]
        /\ (\A k \in JoinIds : KeyCount(k) <= 1) => Len(RjIds) = Len(RjLeft)

\* C3 witness: the join ran on two primary rows, the first with a key that
\* occurs twice in the reference table under different sponsors, the
\* second with a key that does not occur
C3_Witness ==
    /\ tabs["rajasthan"].ok
    /\ Len(RjLeft) = 2
    /\ KeyCount(RjLeft[1]["EventID"]) = 2
    /\ RjRight[1]["CorporateSponsor"] # RjRight[2]["CorporateSponsor"]
    /\ KeyCount(RjLeft[2]["EventID"]) = 0
    /\ Len(RjIds) = 3

\* sum of the numbers among the cells at the positions S
RECURSIVE SumAt(_, _)
SumAt(cells, S) ==
    IF S = {} THEN 0
    ELSE LET i == CHOOSE j \in S : TRUE
         IN  (IF IsNum(cells[i]) THEN cells[i].v ELSE 0) + SumAt(cells, S \ {i})

CountAt(cells, S) == Cardinality({i \in S : IsNum(cells[i])})

\* the index of a grouped result lists exactly the values D, ascending
IndexIs(index, D) ==
    /\ Range(index) = D
    /\ Len(index) = Cardinality(D)
    /\ \A i \in 1..(Len(index) - 1) : index[i].v < index[i + 1].v

\* the positions of the rows whose group key is g
Partition(keys, g) == {r \in 1..Len(keys) : keys[r] = g}

\* the grouped figures hold the sums (Rajasthan) and means (Tamil Nadu) of
\* the partitions
AggregatesRight ==
    /\ tabs["rajasthan"].ok =>
          LET f == tabs["rajasthan"].fig1
          IN  /\ Len(f.y) = Len(f.x)
              /\ \A i \in 1..Len(f.x) :
                    f.y[i] = SumAt(RjTrees, Partition(RjSponsors, f.x[i]))
    /\ tabs["tamil_nadu"].ok =>
          LET f    == tabs["tamil_nadu"].fig1
              keys == tabs["tamil_nadu"].fig3.hovertext
              pits == tabs["tamil_nadu"].fig3.x
              stor == tabs["tamil_nadu"].fig3.y
          IN  /\ Len(f.pits) = Len(f.x) /\ Len(f.storage) = Len(f.x)
              /\ \A i \in 1..Len(f.x) :
                    LET P == Partition(keys, f.x[i])
                    IN  /\ f.pits[i] = FDiv(SumAt(pits, P), CountAt(pits, P))
                        /\ f.storage[i] = FDiv(SumAt(stor, P), CountAt(stor, P))

\* C9 as stated: a grouped aggregate has exactly one row per distinct
\* value of the group column occurring in the table, in ascending key
\* order, each holding the sum or mean over the rows of that partition.
C9_OneRowPerDistinctValue ==
    /\ tabs["rajasthan"].ok =>
          IndexIs(tabs["rajasthan"].fig1.x, Range(RjSponsors))
    /\ tabs["tamil_nadu"].ok =>
          IndexIs(tabs["tamil_nadu"].fig1.x, Range(tabs["tamil_nadu"].fig3.hovertext))
    /\ AggregatesRight

\* C9 amended: a grouped aggregate has exactly one row per distinct
\* non-missing value of the group column, in ascending key order; rows
\* whose group key is missing belong to no partition; each row holds the
\* sum, or the mean of the non-missing values (NaN when there are none),
\* over the rows of its partition.
C9_OneRowPerNonMissingValue ==
    /\ tabs["rajasthan"].ok =>
          IndexIs(tabs["rajasthan"].fig1.x, Range(RjSponsors) \ {NaN})
    /\ tabs["tamil_nadu"].ok =>
          IndexIs(tabs["tamil_nadu"].fig1.x,
                  Range(tabs["tamil_nadu"].fig3.hovertext) \ {NaN})
    /\ AggregatesRight

\* C9 witness: the mean was taken over groups A, B, A with values 1, 0, 1
C9_Witness ==
    /\ tabs["tamil_nadu"].ok
    /\ tabs["tamil_nadu"].fig3.hovertext = <<Text(1), Text(2), Text(1)>>
    /\ tabs["tamil_nadu"].fig3.x = <<Num(1), Num(0), Num(1)>>
    /\ tabs["tamil_nadu"].fig1.x = <<Text(1), Text(2)>>
    /\ tabs["tamil_nadu"].fig1.pits = <<FDiv(1, 1), FDiv(0, 1)>>

-----------------------------------------------------------------------------
(* nlargest on any frame and any n *)

ProbeRows == {[EventID |-> Text(1), WasteRemovedKg |-> v] : v \in Vals}

InitTopN ==
    /\ InitLoad(DefaultFiles)
    /\ qsort = QsortStable(files)
    /\ probe \in {[rows |-> r, n |-> n, done |-> FALSE, out |-> <<>>] :
                    r \in SeqsUpTo(ProbeRows, MaxRows),
                    n \in (0 - 1)..(MaxRows + 1)}

NextTopN == ApplyTopN

SpecTopN == InitTopN /\ [][NextTopN]_vars

ProbeVals == Col(probe.rows, "WasteRemovedKg")

\* a ranks strictly above b: a larger number, or a number against a
\* missing value
Above(a, b) == IsNum(a) /\ (IsNaN(b) \/ (IsNum(b) /\ a.v > b.v))

\* the selection holds min(n, row count) distinct rows (none for n <= 0),
\* in descending order, and no omitted row ranks above a returned one
TopNSelects ==
    LET out == probe.out
        k   == IF probe.n <= 0 THEN 0
               ELSE IF probe.n >= Len(probe.rows) THEN Len(probe.rows)
               ELSE probe.n
    IN  /\ Len(out) = k
        /\ \A i \in 1..k : out[i] \in 1..Len(probe.rows)
        /\ \A i, j \in 1..k : i # j => out[i] # out[j]
        /\ \A i \in 1..(k - 1) : ~Above(ProbeVals[out[i + 1]], ProbeVals[out[i]])
        /\ \A o \in (1..Len(probe.rows)) \ Range(out) :
              \A i \in 1..k : ~Above(ProbeVals[o], ProbeVals[out[i]])

\* rows of equal value are in original row order, among the returned rows
\* and between a returned and an omitted row
TopNTiesInRowOrder ==
    LET out == probe.out
    IN  /\ \A i, j \in 1..Len(out) :
              (i < j /\ ProbeVals[out[i]] = ProbeVals[out[j]]) => out[i] < out[j]
        /\ \A o \in (1..Len(probe.rows)) \ Range(out) :
              \A i \in 1..Len(out) :
                  ProbeVals[o] = ProbeVals[out[i]] => out[i] < o

\* C6 as stated: top_n returns min(n, row count) rows (all rows when n
\* exceeds the row count, none when n <= 0), in descending value order,
\* rows of equal value in original row order, and no omitted row has a
\* larger value than a returned row.
C6_TopNStable ==
    probe.done => TopNSelects /\ TopNTiesInRowOrder

\* C6 amended: as stated, except that rows of equal value are in original
\* row order only when n is less than the row count; when n is at least
\* the row count all rows are returned in descending order and the order
\* among equal values is that of the default (unstable) sort.
C6_TopNStableBelowRowCount ==
    probe.done =>
        /\ TopNSelects
        /\ probe.n < Len(probe.rows) => TopNTiesInRowOrder

\* C6 witness: values 0, 1, 1 with n = 2 gave the two value-1 rows in
\* original order, leaving the value-0 row out
C6_Witness ==
    /\ probe.done
    /\ ProbeVals = <<Num(0), Num(1), Num(1)>>
    /\ probe.n = 2
    /\ probe.out = <<2, 3>>

====
